---- MODULE Spec2Model ----
(***************************************************************************)
(* Model of ralph-go's workflow orchestration and resume engine:           *)
(*   - runClaude / extractErrorDetails / formatClaudeError (worker call)   *)
(*   - executeStepWithRetry (retry-with-timeout wrapper)                   *)
(*   - workflow1PlanAndImplement / workflow2CleanupAndReview               *)
(*   - executeRalphWorkflow (iteration loop, checkpoints)                  *)
(*   - loadState / saveState / clearState / detectResumeWithPrompt         *)
(*                                                                         *)
(* Text is modelled as a sequence of words; the word NL is a line break.   *)
(* strings.Contains is contiguous-subsequence containment on words.        *)
(***************************************************************************)
EXTENDS Integers, Sequences, FiniteSets, TLC

\* ------------------------------------------------------------------ state
VARIABLES
  pc,               \* control point of the process
  mode,             \* "cli" (interactive, no callback) or "manager" (unattended, callback)
  maxIterations,    \* the iteration budget given on the command line
  guardrails,       \* GUARDRAILS.md exists in the project root
  prd,              \* .ralph/PRD.md: [exists, incomplete]
  stateFile,        \* .ralph/ralph-state.txt
  i,                \* loop variable of executeRalphWorkflow
  state,            \* the State struct held by executeRalphWorkflow
  attempt,          \* loop variable of executeStepWithRetry
  planResult,       \* result returned by planning() in the current pass of Workflow 1
  tasksBefore,      \* incomplete tasks counted before Workflow 2
  runResult,        \* (completed, err) returned by executeRalphWorkflow
  resume,           \* (state, resumeStep) returned by detectResumeWithPrompt, until first use of the worker
  progressLog,      \* iterations for which the progress callback was called
  lastExit,         \* how the most recent worker invocation ended
  lastErr,          \* error of the most recent worker invocation or callback
  deadlines,        \* invocations of the current step that hit the deadline
  stepCalls,        \* invocations made by the current executeStepWithRetry call
  stepDone,         \* the most recent invocation made executeStepWithRetry return
  blockedBy,        \* unit of this run whose clean output most recently carried BLOCKED
  firstPlan,        \* what the first planning invocation of this run signalled
  tasksIncreased,   \* some task check of this run saw more tasks after Workflow 2
  invoked,          \* a worker was invoked since the process started
  savedSinceReturn, \* a checkpoint was written since the last unit returned
  planFile,         \* .ralph/PLAN.md exists
  bootInfo,         \* what resume detection saw and was answered, until the loop starts
  main,             \* the process of main() with its own iteration loop
  mgr,              \* the process of runManagerMode
  saver,            \* one call of saveState taken write by write, and the load after it
  naming            \* a branch name built for a ticket and the issue id read back from it

vars == <<pc, mode, maxIterations, guardrails, prd, stateFile, i, state, attempt,
          planResult, tasksBefore, runResult, resume, progressLog, lastExit, lastErr,
          deadlines, stepCalls, stepDone, blockedBy, firstPlan, tasksIncreased,
          invoked, savedSinceReturn, planFile, bootInfo, main, mgr, saver, naming>>

\* ---------------------------------------------------------------- bounds
MaxIter == 3
MaxTasks == 1
MaxMainIter == 5
MaxTickets == 2
MaxMgrIter == 2
MaxLaunches == 2

\* ------------------------------------------------------ program constants
MaxRetries == 3

NL == "\n"
BLOCKED == "<promise>BLOCKED</promise>"
COMPLETE == "<promise>COMPLETE</promise>"

\* ------------------------------------------------------------ text helpers
Lower(w) ==
  CASE w = "Timeout" -> "timeout"
    [] w = "Error" -> "error"
    [] w = "Exit" -> "exit"
    [] w = "Technical" -> "technical"
    [] w = "Request" -> "request"
    [] w = "Claude" -> "claude"
    [] w = "API" -> "api"
    [] w = "Network" -> "network"
    [] w = "Stderr" -> "stderr"
    [] w = "Command" -> "command"
    [] OTHER -> w

ToLower(s) == [k \in 1..Len(s) |-> Lower(s[k])]

Contains(s, sub) ==
  \E k \in 1..(Len(s) - Len(sub) + 1) : SubSeq(s, k, k + Len(sub) - 1) = sub

ContainsAny(s, subs) == \E sub \in subs : Contains(s, sub)

RECURSIVE TrimLeft(_)
TrimLeft(s) == IF s # <<>> /\ Head(s) = NL THEN TrimLeft(Tail(s)) ELSE s

RECURSIVE TrimRight(_)
TrimRight(s) ==
  IF s # <<>> /\ s[Len(s)] = NL THEN TrimRight(SubSeq(s, 1, Len(s) - 1)) ELSE s

TrimSpace(s) == TrimRight(TrimLeft(s))

\* strings.Split(s, "\n"): the sequence of lines of s
RECURSIVE SplitLines(_, _)
SplitLines(s, cur) ==
  IF s = <<>> THEN <<cur>>
  ELSE IF Head(s) = NL THEN <<cur>> \o SplitLines(Tail(s), <<>>)
  ELSE SplitLines(Tail(s), Append(cur, Head(s)))

Split(s) == SplitLines(s, <<>>)

\* --------------------------------------------------------------- messages
MsgNoCli == <<"claude", "command", "not", "found", "in", "PATH">>
MsgFailedAfter == <<"failed", "after", "3", "attempts">>
MsgCallbackFailed == <<"progress", "callback", "failed">>
NoErr == <<>>

MsgRequestTimeout == <<"Request", "timeout", "after", "N", "seconds">>
SugRequestTimeout == <<"The", "request", "took", "too", "long", "to", "complete.">>

AuthKeys == { <<"authentication">>, <<"unauthorized">>, <<"invalid", "api", "key">>,
              <<"api", "key">>, <<"not", "authenticated">>, <<"auth">> }
RateKeys == { <<"rate", "limit">>, <<"rate_limit">>, <<"too", "many", "requests">>, <<"429">> }
NetworkKeys == { <<"network">>, <<"connection">>, <<"timeout">>, <<"dns">>,
                 <<"refused">>, <<"no", "such", "host">> }
ApiKeys == { <<"api", "error">>, <<"bad", "request">>, <<"400">>, <<"500">>, <<"502">>,
             <<"503">>, <<"internal", "server", "error">> }
LateTimeoutKeys == { <<"timeout">>, <<"deadline", "exceeded">> }
ErrorLineKeys == { <<"error">>, <<"failed">>, <<"invalid">>, <<"unauthorized">> }

ExitStatus(code) == <<"exit", "status", code>>

\* first (at most three) lines of fullOutput that mention an error keyword
RECURSIVE ErrorLines(_, _)
ErrorLines(lines, found) ==
  IF lines = <<>> \/ Len(found) >= 3 THEN found
  ELSE IF ContainsAny(ToLower(Head(lines)), ErrorLineKeys)
       THEN ErrorLines(Tail(lines), Append(found, Head(lines)))
       ELSE ErrorLines(Tail(lines), found)

RECURSIVE JoinLines(_)
JoinLines(lines) ==
  IF lines = <<>> THEN <<>> ELSE Head(lines) \o JoinLines(Tail(lines))

UnknownSuggestion(stderr, streamError, fullOutput, code) ==
  LET errorLines == ErrorLines(Split(fullOutput), <<>>) IN
    <<"An", "unexpected", "error", "occurred.">>
    \o (IF stderr # <<>> THEN <<NL, "Stderr", "output:">> \o stderr ELSE <<>>)
    \o (IF streamError # <<>> THEN <<NL, "Stream", "error:">> \o streamError ELSE <<>>)
    \o (IF code # "0" THEN <<NL, "Exit", "code:", code>> ELSE <<>>)
    \o (IF fullOutput # <<>> /\ errorLines # <<>>
        THEN <<NL, "Command", "output", "(relevant", "lines):">> \o JoinLines(errorLines)
        ELSE <<>>)

extractErrorDetails(stderr, streamError, fullOutput, code) ==
  LET combinedError == ToLower(stderr \o streamError)
      technical == ExitStatus(code)
  IN
  IF ContainsAny(combinedError, AuthKeys) THEN
    [Category |-> "authentication",
     Message |-> <<"Claude", "API", "authentication", "error">>,
     Suggestion |-> <<"The", "Claude", "CLI", "could", "not", "authenticate.", NL,
                      "Run:", "claude", "auth", "login">>,
     Technical |-> technical]
  ELSE IF ContainsAny(combinedError, RateKeys) THEN
    [Category |-> "rate_limit",
     Message |-> <<"Claude", "API", "rate", "limit", "exceeded">>,
     Suggestion |-> <<"Too", "many", "requests.">>,
     Technical |-> technical]
  ELSE IF ContainsAny(combinedError, NetworkKeys) THEN
    [Category |-> "network",
     Message |-> <<"Network", "connection", "error">>,
     Suggestion |-> <<"Unable", "to", "connect", "to", "Claude", "API.">>,
     Technical |-> technical]
  ELSE IF ContainsAny(combinedError, ApiKeys) THEN
    [Category |-> "api_error",
     Message |-> <<"Claude", "API", "error">>,
     Suggestion |-> IF stderr # <<>>
                    THEN <<"The", "Claude", "API", "returned", "an", "error.", "Details:">> \o stderr
                    ELSE <<"The", "Claude", "API", "returned", "an", "error.">>,
     Technical |-> technical]
  ELSE IF ContainsAny(combinedError, LateTimeoutKeys) THEN
    [Category |-> "timeout",
     Message |-> <<"Request", "timeout">>,
     Suggestion |-> <<"The", "request", "took", "too", "long", "to", "complete.">>,
     Technical |-> technical]
  ELSE
    [Category |-> "unknown",
     Message |-> <<"Claude", "command", "failed">>,
     Suggestion |-> UnknownSuggestion(stderr, streamError, fullOutput, code),
     Technical |-> technical]

formatClaudeError(details) ==
  details.Message
  \o (IF details.Suggestion # <<>> THEN <<NL>> \o details.Suggestion ELSE <<>>)
  \o (IF /\ details.Technical # <<>>
         /\ ~Contains(ToLower(details.Suggestion), ToLower(details.Technical))
         /\ ~Contains(ToLower(details.Technical), ToLower(details.Message))
      THEN <<NL, "Technical", "details:">> \o details.Technical
      ELSE <<>>)

\* ------------------------------------------------------------- the worker
\* One behaviour of the external worker process for one invocation.
CleanOutputs == { <<"ok">>, <<BLOCKED>>, <<COMPLETE>>, <<COMPLETE, NL, BLOCKED>> }
FailOutputs == { <<>>, <<COMPLETE, NL, BLOCKED>>, <<"Error", "Timeout">>,
                 <<"ok", NL, "failed", "timeout">> }
FailStderr == { <<>>, <<"auth">>, <<"Timeout">>, <<"500">>, <<"deadline", "exceeded">> }
DeadlineOutputs == { <<>>, <<COMPLETE, NL, BLOCKED>> }

WorkerBehaviours ==
  { [cli |-> FALSE, exit |-> "none", code |-> "0", stdout |-> <<>>, stderr |-> <<>>] }
  \cup { [cli |-> TRUE, exit |-> "clean", code |-> "0", stdout |-> o, stderr |-> <<>>]
         : o \in CleanOutputs }
  \cup { [cli |-> TRUE, exit |-> "deadline", code |-> "-1", stdout |-> o, stderr |-> <<>>]
         : o \in DeadlineOutputs }
  \cup { [cli |-> TRUE, exit |-> "failure", code |-> "1", stdout |-> o, stderr |-> e]
         : o \in FailOutputs, e \in FailStderr }

NilResult == [isNil |-> TRUE, Output |-> <<>>, Success |-> FALSE,
              Blocked |-> FALSE, Complete |-> FALSE]

ParseMarkers_semantic(result) ==
  [result EXCEPT !.Blocked = Contains(result.Output, <<BLOCKED>>),
                 !.Complete = Contains(result.Output, <<COMPLETE>>),
                 !.Success = ~Contains(result.Output, <<BLOCKED>>)]

ParseMarkers(result) ==
  [result EXCEPT !.Blocked = Contains(result.Output, <<BLOCKED>>),
                 !.Complete = Contains(result.Output, <<COMPLETE>>)]

runClaude_parseAlways(w) ==
  IF ~w.cli THEN [result |-> NilResult, err |-> MsgNoCli]
  ELSE
    LET stdoutStr == TrimSpace(w.stdout)
        stderrStr == TrimSpace(w.stderr)
        result == [isNil |-> FALSE, Output |-> stdoutStr, Success |-> (w.exit = "clean"),
                   Blocked |-> FALSE, Complete |-> FALSE]
    IN
    IF w.exit # "clean" THEN
      IF w.exit = "deadline" THEN
        LET details == [extractErrorDetails(stderrStr, <<>>, stdoutStr, w.code)
                          EXCEPT !.Category = "timeout",
                                 !.Message = MsgRequestTimeout,
                                 !.Suggestion = SugRequestTimeout]
        IN [result |-> ParseMarkers(result), err |-> formatClaudeError(details)]
      ELSE
        [result |-> ParseMarkers(result),
         err |-> formatClaudeError(extractErrorDetails(stderrStr, <<>>, stdoutStr, w.code))]
    ELSE [result |-> ParseMarkers(result), err |-> NoErr]

\* runClaude: the (result, error) pair returned for one behaviour of the worker
runClaude(w) ==
  IF ~w.cli THEN [result |-> NilResult, err |-> MsgNoCli]
  ELSE
    LET stdoutStr == TrimSpace(w.stdout)
        stderrStr == TrimSpace(w.stderr)
        result == [isNil |-> FALSE, Output |-> stdoutStr, Success |-> (w.exit = "clean"),
                   Blocked |-> FALSE, Complete |-> FALSE]
    IN
    IF w.exit # "clean" THEN
      IF w.exit = "deadline" THEN
        LET details == [extractErrorDetails(stderrStr, <<>>, stdoutStr, w.code)
                          EXCEPT !.Category = "timeout",
                                 !.Message = MsgRequestTimeout,
                                 !.Suggestion = SugRequestTimeout]
        IN [result |-> result, err |-> formatClaudeError(details)]
      ELSE
        [result |-> result,
         err |-> formatClaudeError(extractErrorDetails(stderrStr, <<>>, stdoutStr, w.code))]
    ELSE [result |-> ParseMarkers(result), err |-> NoErr]

\* ------------------------------------------------------- executeStepWithRetry
IsTimeoutError(errStr) ==
  Contains(errStr, <<"timeout">>) \/ Contains(errStr, <<"Request", "timeout">>)

LastAttempt_early(n) == n >= MaxRetries - 2

LastAttempt(n) == n >= MaxRetries - 1

\* One pass through the body of the retry loop for the given attempt number.
\* returned = FALSE means the loop goes round again (attempt + 1).
StepAttempt(n, w) ==
  LET r == runClaude(w) IN
  IF r.err # NoErr THEN
    IF IsTimeoutError(r.err) THEN
      IF LastAttempt(n)
      THEN [returned |-> TRUE, result |-> r.result, err |-> r.err]
      ELSE [returned |-> FALSE, result |-> r.result, err |-> r.err]
    ELSE [returned |-> TRUE, result |-> r.result, err |-> r.err]
  ELSE IF r.result.Success THEN [returned |-> TRUE, result |-> r.result, err |-> NoErr]
  ELSE IF n + 1 < MaxRetries
       THEN [returned |-> FALSE, result |-> r.result, err |-> NoErr]
       ELSE [returned |-> TRUE, result |-> NilResult, err |-> MsgFailedAfter]

\* StepAttempt tabulated over the attempts and worker behaviours of the model
StepTable ==
  [a \in 0..(MaxRetries - 1), w \in WorkerBehaviours |-> StepAttempt(a, w)] @@ <<>>

\* --------------------------------------------------------- checkpoint file
\* strconv.Itoa / fmt "%d" on a non-negative int: its decimal digits
Digit(d) == CASE d = 0 -> "0" [] d = 1 -> "1" [] d = 2 -> "2" [] d = 3 -> "3"
              [] d = 4 -> "4" [] d = 5 -> "5" [] d = 6 -> "6" [] d = 7 -> "7"
              [] d = 8 -> "8" [] d = 9 -> "9"

RECURSIVE Itoa(_)
Itoa(n) ==
  IF n < 0 THEN <<"-">> \o Itoa(0 - n)
  ELSE IF n < 10 THEN <<Digit(n)>>
  ELSE Append(Itoa(n \div 10), Digit(n % 10))

DigitValue(c) == CASE c = "0" -> 0 [] c = "1" -> 1 [] c = "2" -> 2 [] c = "3" -> 3
                   [] c = "4" -> 4 [] c = "5" -> 5 [] c = "6" -> 6 [] c = "7" -> 7
                   [] c = "8" -> 8 [] c = "9" -> 9 [] OTHER -> -1

RECURSIVE AtoiDigits(_, _)
AtoiDigits(s, acc) ==
  IF s = <<>> THEN acc
  ELSE IF DigitValue(Head(s)) < 0 THEN -1
  ELSE AtoiDigits(Tail(s), acc * 10 + DigitValue(Head(s)))

\* strconv.Atoi with the error discarded: 0 when the text is not a number
Atoi(s) ==
  IF s = <<>> THEN 0
  ELSE IF Head(s) \in {"-", "+"} THEN
    IF Tail(s) = <<>> THEN 0
    ELSE LET v == AtoiDigits(Tail(s), 0) IN
         IF v < 0 THEN 0 ELSE IF Head(s) = "-" THEN 0 - v ELSE v
  ELSE LET v == AtoiDigits(s, 0) IN IF v < 0 THEN 0 ELSE v

NoFile == [exists |-> FALSE, lines |-> <<>>]

NilState == [isNil |-> TRUE, Iteration |-> 0, MaxIterations |-> 0,
             CurrentStep |-> 0, LastCompletedWorkflow |-> 0]

NewState(iteration, maxIter, step, last) ==
  [isNil |-> FALSE, Iteration |-> iteration, MaxIterations |-> maxIter,
   CurrentStep |-> step, LastCompletedWorkflow |-> last]

saveState_noStep(st) ==
  [exists |-> TRUE,
   lines |-> << [key |-> "iteration", value |-> Itoa(st.Iteration)],
                [key |-> "max_iterations", value |-> Itoa(st.MaxIterations)],
                [key |-> "last_completed_workflow", value |-> Itoa(st.LastCompletedWorkflow)] >>]

\* the file saveState leaves behind when os.Create succeeds
saveState(st) ==
  [exists |-> TRUE,
   lines |-> << [key |-> "iteration", value |-> Itoa(st.Iteration)],
                [key |-> "max_iterations", value |-> Itoa(st.MaxIterations)],
                [key |-> "current_step", value |-> Itoa(st.CurrentStep)],
                [key |-> "last_completed_workflow", value |-> Itoa(st.LastCompletedWorkflow)] >>]

RECURSIVE ScanLines(_, _)
ScanLines(lines, st) ==
  IF lines = <<>> THEN st
  ELSE LET l == Head(lines)
           n == Atoi(l.value)
           st2 == CASE l.key = "iteration" -> [st EXCEPT !.Iteration = n]
                    [] l.key = "max_iterations" -> [st EXCEPT !.MaxIterations = n]
                    [] l.key = "current_step" -> [st EXCEPT !.CurrentStep = n]
                    [] l.key = "last_completed_workflow" -> [st EXCEPT !.LastCompletedWorkflow = n]
                    [] l.key = "last_completed_step" -> [st EXCEPT !.LastCompletedWorkflow = n]
                    [] OTHER -> st
       IN ScanLines(Tail(lines), st2)

loadState(file) ==
  IF ~file.exists THEN NilState
  ELSE ScanLines(file.lines, NewState(0, 0, 0, 0))

clearState(file) == NoFile

Corrupted_orFirst(st) == st.Iteration <= 1 \/ st.MaxIterations = 0

\* detectResumeWithPrompt: "State file is corrupted"
Corrupted(st) == st.Iteration = 0 \/ st.MaxIterations = 0

\* detectResumeWithPrompt: "State file indicates iteration exceeds max"
ExceedsMax(st) == st.Iteration > st.MaxIterations

ResumeStepFor_next(last) == IF last = 2 THEN 3 ELSE IF last = 1 THEN 3 ELSE 2

\* detectResumeWithPrompt: resumeStep from LastCompletedWorkflow
ResumeStepFor(last) == IF last = 2 THEN 3 ELSE IF last = 1 THEN 2 ELSE 1

Declined_anyMode(interactive, response) == response = "n" \/ response = "N"

\* detectResumeWithPrompt: the operator refused the proposed resume
Declined(interactive, response) == interactive /\ (response = "n" \/ response = "N")

\* detectResumeWithPrompt: the returned (state, resumeStep) and the file it leaves
detectResumeWithPrompt(file, interactive, response) ==
  LET st == loadState(file) IN
  IF st.isNil THEN [state |-> NilState, step |-> 0, file |-> file]
  ELSE IF Corrupted(st)
    THEN [state |-> NilState, step |-> 0, file |-> clearState(file)]
  ELSE IF ExceedsMax(st)
    THEN [state |-> NilState, step |-> 0, file |-> clearState(file)]
  ELSE IF Declined(interactive, response)
    THEN [state |-> NilState, step |-> 0, file |-> clearState(file)]
  ELSE [state |-> st, step |-> ResumeStepFor(st.LastCompletedWorkflow), file |-> file]

countIncompletePRDTasks(p) == IF p.exists THEN p.incomplete ELSE 0

env == <<mode, maxIterations, guardrails>>
ext == <<main, mgr, saver, naming>>
stepGhost == <<lastExit, lastErr, deadlines, stepCalls, stepDone>>
ClearStep ==
  /\ lastExit' = "none"
  /\ lastErr' = NoErr
  /\ deadlines' = 0
  /\ stepCalls' = 0
  /\ stepDone' = FALSE
runGhost == <<blockedBy, firstPlan, invoked>>

W1Units == {"plan", "implement", "guardrail", "cleanup", "commit"}
W2Units == {"refactor", "selfimprove"}
Units == W1Units \cup W2Units

NoPlan == [Blocked |-> FALSE, Complete |-> FALSE]
NotDone == [done |-> FALSE, completed |-> FALSE, err |-> "none"]
Returned(completed, err) == [done |-> TRUE, completed |-> completed, err |-> err]
NoResume == [state |-> NilState, step |-> 0]
NoBoot == [response |-> "", existed |-> FALSE, valid |-> FALSE, passes |-> FALSE]
Responses == {"", "y", "n", "N", "no"}

\* the checkpoint on disk names an iteration within its own recorded maximum
ValidOnDisk(file) ==
  /\ file.exists
  /\ loadState(file).Iteration > 0
  /\ loadState(file).Iteration <= loadState(file).MaxIterations

\* the checkpoint on disk is one that resume detection proposes for resume
PassesValidation(file) ==
  /\ file.exists
  /\ loadState(file).Iteration # 0
  /\ loadState(file).MaxIterations # 0
  /\ loadState(file).Iteration <= loadState(file).MaxIterations

MainIdle == [pc |-> "idle"]
MgrIdle == [pc |-> "idle"]
SaverIdle == [pc |-> "idle"]
NamingIdle == [pc |-> "idle"]

\* checkpoint files that may be lying around when the process is first started
InitFiles ==
  { NoFile,
    saveState(NewState(2, 3, 2, 1)),
    saveState(NewState(1, 2, 1, 0)),
    saveState(NewState(4, 3, 1, 0)),
    saveState(NewState(-1, 3, 1, 0)),
    [exists |-> TRUE, lines |-> << [key |-> "iteration", value |-> <<"x">>] >>] }

InitPRDs == { [exists |-> FALSE, incomplete |-> 0] }
            \cup { [exists |-> TRUE, incomplete |-> n] : n \in 0..MaxTasks }

Init ==
  /\ pc = "boot"
  /\ mode \in {"cli", "manager"}
  /\ maxIterations \in 1..MaxIter
  /\ guardrails \in BOOLEAN
  /\ prd \in InitPRDs
  /\ stateFile \in InitFiles
  /\ i = 0
  /\ state = NilState
  /\ attempt = 0
  /\ planResult = NoPlan
  /\ tasksBefore = 0
  /\ runResult = NotDone
  /\ resume = NoResume
  /\ progressLog = <<>>
  /\ lastExit = "none"
  /\ lastErr = NoErr
  /\ deadlines = 0
  /\ stepCalls = 0
  /\ stepDone = FALSE
  /\ blockedBy = "none"
  /\ firstPlan = "pending"
  /\ tasksIncreased = FALSE
  /\ invoked = FALSE
  /\ savedSinceReturn = FALSE
  /\ planFile = FALSE
  /\ bootInfo = NoBoot
  /\ main = MainIdle
  /\ mgr = MgrIdle
  /\ saver = SaverIdle
  /\ naming = NamingIdle

\* --------------------------------------------------------- control decisions
PlanContinues_onComplete(result) == ~result.Blocked

\* workflow1PlanAndImplement: planning result that lets the pass go on
PlanContinues(result) == ~(result.Blocked \/ result.Complete)

ImplBlocked_dropped(planRes, implResult) == planRes

\* workflow1PlanAndImplement: the result returned when implementation is blocked
ImplBlocked(planRes, implResult) ==
  IF implResult.Blocked THEN [planRes EXCEPT !.Blocked = TRUE] ELSE planRes

LoopDecision_eager(result) == IF result.Blocked THEN "blocked" ELSE "complete"

\* executeRalphWorkflow: what the loop does with the result of Workflow 1
LoopDecision(result) ==
  IF result.Blocked THEN "blocked"
  ELSE IF result.Complete THEN "complete"
  ELSE "again"

NewTasksCreated_orEqual(before, after) == after >= before

\* executeRalphWorkflow: Workflow 2 created new PRD tasks
NewTasksCreated(before, after) == after > before

AfterWorkflow1(result) ==
  CASE LoopDecision(result) = "blocked" ->
         [pc |-> "done", plan |-> result, res |-> Returned(FALSE, "blocked during planning")]
    [] LoopDecision(result) = "complete" ->
         [pc |-> "w1DoneSave", plan |-> result, res |-> NotDone]
    [] OTHER -> [pc |-> "plan", plan |-> NoPlan, res |-> NotDone]

\* where control goes when unit u returns (result, err)
AfterUnit(u, result, err, planRes, guard) ==
  IF err # NoErr THEN
    [pc |-> "done", plan |-> planRes,
     res |-> Returned(FALSE, IF u \in W1Units THEN "error in Workflow 1"
                             ELSE "error in Workflow 2")]
  ELSE CASE u = "plan" ->
              LET r == [Blocked |-> result.Blocked, Complete |-> result.Complete] IN
              IF PlanContinues(r)
              THEN [pc |-> "implement", plan |-> r, res |-> NotDone]
              ELSE AfterWorkflow1(r)
         [] u = "implement" ->
              IF result.Blocked
              THEN AfterWorkflow1(ImplBlocked(planRes, result))
              ELSE [pc |-> IF guard THEN "guardrail" ELSE "cleanup",
                    plan |-> planRes, res |-> NotDone]
         [] u = "guardrail" -> [pc |-> "cleanup", plan |-> planRes, res |-> NotDone]
         [] u = "cleanup" -> [pc |-> "commit", plan |-> planRes, res |-> NotDone]
         [] u = "commit" -> AfterWorkflow1(planRes)
         [] u = "refactor" -> [pc |-> "selfimprove", plan |-> planRes, res |-> NotDone]
         [] u = "selfimprove" -> [pc |-> "w2DoneSave", plan |-> planRes, res |-> NotDone]

SignalsBlocked(w) == w.cli /\ w.exit = "clean" /\ Contains(w.stdout, <<BLOCKED>>)
SignalsComplete(w) == w.cli /\ w.exit = "clean" /\ Contains(w.stdout, <<COMPLETE>>)

\* ---------------------------------------------------------------- actions
\* main (process start): resume detection, then executeRalphWorkflow
Boot ==
  /\ pc = "boot"
  /\ \E response \in Responses :
     \E d \in {detectResumeWithPrompt(stateFile, mode = "cli", response)} :
         /\ stateFile' = d.file
         /\ resume' = [state |-> d.state, step |-> d.step]
         /\ bootInfo' = [response |-> response, existed |-> stateFile.exists,
                         valid |-> ValidOnDisk(stateFile),
                         passes |-> PassesValidation(stateFile)]
  /\ pc' = "start"
  /\ UNCHANGED <<env, ext, prd, i, state, attempt, planResult, tasksBefore, runResult,
                 progressLog, stepGhost, runGhost, tasksIncreased, savedSinceReturn,
                 planFile>>

\* executeRalphWorkflow: required files check and loop entry
Start ==
  /\ pc = "start"
  /\ IF ~prd.exists
     THEN /\ pc' = "done"
          /\ runResult' = Returned(FALSE, "required file not found")
          /\ i' = i
     ELSE /\ pc' = "iterSave"
          /\ runResult' = runResult
          /\ i' = 1
  /\ bootInfo' = NoBoot
  /\ UNCHANGED <<env, ext, prd, stateFile, state, attempt, planResult, tasksBefore, resume,
                 progressLog, stepGhost, runGhost, tasksIncreased, savedSinceReturn,
                 planFile>>

\* state := st; saveState(st); on success go to next, on failure return the error
Save(st, next) ==
  /\ state' = st
  /\ \E ok \in BOOLEAN :
       IF ok THEN /\ stateFile' = saveState(st)
                  /\ pc' = next
                  /\ runResult' = runResult
                  /\ savedSinceReturn' = TRUE
             ELSE /\ stateFile' = stateFile
                  /\ pc' = "done"
                  /\ runResult' = Returned(FALSE, "error saving state")
                  /\ savedSinceReturn' = savedSinceReturn

IterationStartState_first(iter, maxIter) == NewState(1, maxIter, 1, 0)
IterationStartState(iter, maxIter) == NewState(iter, maxIter, 1, 0)
Workflow1StartState(st) == [st EXCEPT !.CurrentStep = 1, !.LastCompletedWorkflow = 0]
Workflow1DoneState(st) == [st EXCEPT !.LastCompletedWorkflow = 1]
Workflow2StartState_stale(st) == st
Workflow2StartState(st) == [st EXCEPT !.CurrentStep = 2, !.LastCompletedWorkflow = 1]
Workflow2DoneState_back(st) == [st EXCEPT !.LastCompletedWorkflow = 0]
Workflow2DoneState(st) == [st EXCEPT !.LastCompletedWorkflow = 2]

IterSave ==
  /\ pc = "iterSave"
  /\ Save(IterationStartState(i, maxIterations), "w1Save")
  /\ ClearStep
  /\ UNCHANGED <<env, ext, prd, i, attempt, planResult, tasksBefore, resume, progressLog,
                 runGhost, tasksIncreased, planFile, bootInfo>>

W1Save ==
  /\ pc = "w1Save"
  /\ Save(Workflow1StartState(state), "plan")
  /\ ClearStep
  /\ UNCHANGED <<env, ext, prd, i, attempt, planResult, tasksBefore, resume, progressLog,
                 runGhost, tasksIncreased, planFile, bootInfo>>

W1DoneSave ==
  /\ pc = "w1DoneSave"
  /\ Save(Workflow1DoneState(state), "w2Save")
  /\ ClearStep
  /\ UNCHANGED <<env, ext, prd, i, attempt, planResult, tasksBefore, resume, progressLog,
                 runGhost, tasksIncreased, planFile, bootInfo>>

W2Save ==
  /\ pc = "w2Save"
  /\ Save(Workflow2StartState(state), "refactor")
  /\ tasksBefore' = IF pc' = "refactor" THEN countIncompletePRDTasks(prd) ELSE tasksBefore
  /\ ClearStep
  /\ UNCHANGED <<env, ext, prd, i, attempt, planResult, resume, progressLog,
                 runGhost, tasksIncreased, planFile, bootInfo>>

W2DoneSave ==
  /\ pc = "w2DoneSave"
  /\ Save(Workflow2DoneState(state), IF mode = "manager" THEN "callback" ELSE "taskCheck")
  /\ ClearStep
  /\ UNCHANGED <<env, ext, prd, i, attempt, planResult, tasksBefore, resume, progressLog,
                 runGhost, tasksIncreased, planFile, bootInfo>>

\* .ralph/PLAN.md after unit u: planning writes it when it picked a task,
\* cleanup removes it
PlanFileAfter(u, ok, result, before) ==
  IF ~ok THEN before
  ELSE IF u = "plan" THEN (before \/ ~(result.Blocked \/ result.Complete))
  ELSE IF u = "cleanup" THEN FALSE
  ELSE before

\* one pass through the retry loop of executeStepWithRetry for unit u
UnitStep(u) ==
  /\ pc = u
  /\ \E w \in WorkerBehaviours, n \in 0..MaxTasks :
     \E a \in {StepTable[attempt, w]} :
     \E k \in {AfterUnit(u, a.result, a.err, planResult, guardrails)} :
         /\ prd' = IF w.cli /\ prd.exists THEN [prd EXCEPT !.incomplete = n] ELSE prd
         /\ lastExit' = IF w.cli THEN w.exit ELSE "nocli"
         /\ lastErr' = a.err
         /\ stepCalls' = attempt + 1
         /\ deadlines' = (IF attempt = 0 THEN 0 ELSE deadlines)
                         + (IF w.exit = "deadline" THEN 1 ELSE 0)
         /\ stepDone' = a.returned
         /\ blockedBy' = IF SignalsBlocked(w) THEN u ELSE blockedBy
         /\ firstPlan' = IF firstPlan = "pending" /\ u = "plan"
                         THEN (IF SignalsComplete(w) /\ SignalsBlocked(w) THEN "both"
                               ELSE IF SignalsComplete(w) THEN "complete"
                               ELSE "other")
                         ELSE firstPlan
         /\ invoked' = TRUE
         /\ resume' = NoResume
         /\ planFile' = PlanFileAfter(u, a.returned /\ a.err = NoErr, a.result, planFile)
         /\ IF a.returned
            THEN /\ attempt' = 0
                 /\ pc' = k.pc
                 /\ planResult' = k.plan
                 /\ runResult' = k.res
                 /\ savedSinceReturn' = FALSE
            ELSE /\ attempt' = attempt + 1
                 /\ UNCHANGED <<pc, planResult, runResult, savedSinceReturn>>
  /\ UNCHANGED <<env, ext, stateFile, i, state, tasksBefore, progressLog, tasksIncreased,
                 bootInfo>>

Planning == UnitStep("plan")
Implementation == UnitStep("implement")
GuardrailVerify == UnitStep("guardrail")
Cleanup == UnitStep("cleanup")
Commit == UnitStep("commit")
AgentsRefactor == UnitStep("refactor")
SelfImprovement == UnitStep("selfimprove")

AfterCallback_fatal(failed) == IF failed THEN "done" ELSE "taskCheck"

\* executeRalphWorkflow: where the loop goes on after progressCallback returned
AfterCallback(failed) == "taskCheck"

\* executeRalphWorkflow: progress callback (manager mode); its error is only logged
Callback ==
  /\ pc = "callback"
  /\ progressLog' = Append(progressLog, i)
  /\ \E failed \in BOOLEAN :
       /\ lastErr' = IF failed THEN MsgCallbackFailed ELSE NoErr
       /\ pc' = AfterCallback(failed)
  /\ lastExit' = "none"
  /\ deadlines' = 0
  /\ stepCalls' = 0
  /\ stepDone' = FALSE
  /\ UNCHANGED <<env, ext, prd, stateFile, i, state, attempt, planResult, tasksBefore, runResult,
                 resume, runGhost, tasksIncreased, savedSinceReturn, planFile, bootInfo>>

\* executeRalphWorkflow: task count after Workflow 2, then continue or finish
TaskCheck ==
  /\ pc = "taskCheck"
  /\ LET tasksAfter == countIncompletePRDTasks(prd) IN
       /\ tasksIncreased' = (tasksIncreased \/ tasksAfter > tasksBefore)
       /\ IF NewTasksCreated(tasksBefore, tasksAfter)
          THEN /\ i' = i + 1
               /\ IF i + 1 <= maxIterations
                  THEN /\ pc' = "iterSave"
                       /\ UNCHANGED <<stateFile, runResult>>
                  ELSE /\ pc' = "done"
                       /\ stateFile' = clearState(stateFile)
                       /\ runResult' = Returned(FALSE, "none")
          ELSE /\ i' = i
               /\ pc' = "done"
               /\ stateFile' = clearState(stateFile)
               /\ runResult' = Returned(TRUE, "none")
  /\ ClearStep
  /\ UNCHANGED <<env, ext, prd, state, attempt, planResult, tasksBefore, resume, progressLog,
                 runGhost, savedSinceReturn, planFile, bootInfo>>

\* the process dies (or has exited) and is started again
Crash ==
  /\ pc # "boot"
  /\ pc' = "boot"
  /\ i' = 0
  /\ state' = NilState
  /\ attempt' = 0
  /\ planResult' = NoPlan
  /\ tasksBefore' = 0
  /\ runResult' = NotDone
  /\ resume' = NoResume
  /\ progressLog' = <<>>
  /\ lastExit' = "none"
  /\ lastErr' = NoErr
  /\ deadlines' = 0
  /\ stepCalls' = 0
  /\ stepDone' = FALSE
  /\ blockedBy' = "none"
  /\ firstPlan' = "pending"
  /\ tasksIncreased' = FALSE
  /\ invoked' = FALSE
  /\ savedSinceReturn' = FALSE
  /\ bootInfo' = NoBoot
  /\ UNCHANGED <<env, ext, prd, stateFile, planFile>>

NextRun ==
  \/ Boot
  \/ Start
  \/ IterSave
  \/ W1Save
  \/ Planning
  \/ Implementation
  \/ GuardrailVerify
  \/ Cleanup
  \/ Commit
  \/ W1DoneSave
  \/ W2Save
  \/ AgentsRefactor
  \/ SelfImprovement
  \/ W2DoneSave
  \/ Callback
  \/ TaskCheck

Next == NextRun \/ Crash

Spec == Init /\ [][Next]_vars

\* a single run of the process, every enabled step eventually taken
FairSpec == Init /\ [][NextRun]_vars /\ WF_vars(NextRun)

TypeOK ==
  /\ pc \in {"boot", "start", "iterSave", "w1Save", "w1DoneSave", "w2Save", "w2DoneSave",
             "callback", "taskCheck", "done"} \cup Units
  /\ i \in 0..(MaxIter + 1)
  /\ attempt \in 0..(MaxRetries - 1)

\* ------------------------------------------------------------ main()
\* main() with its own five-step iteration loop. Its State carries the number
\* of the last completed step in the last-completed field.
workflowVars == <<pc, i, state, attempt, planResult, tasksBefore, runResult, resume,
                  progressLog, stepGhost, runGhost, tasksIncreased, savedSinceReturn,
                  planFile, bootInfo>>

\* what a step function can return: (result.Blocked, result.Complete, err != nil)
StepResults ==
  { [failed |-> t.err # NoErr,
     Blocked |-> (~t.result.isNil /\ t.result.Blocked),
     Complete |-> (~t.result.isNil /\ t.result.Complete)]
    : t \in { StepTable[a, w] : a \in 0..(MaxRetries - 1), w \in WorkerBehaviours } }

\* saveState whose error is only printed
SaveLogged(file, st, ok) == IF ok THEN saveState(st) ELSE file

MainStart == [pc |-> "args", i |-> 0, startIteration |-> 1, resumeStep |-> 0,
              skipToStep |-> 0, state |-> NilState, exit |-> -1, outcome |-> "none",
              resumedAt |-> 0]

MainExit(m, code, outcome) == [m EXCEPT !.pc = "exited", !.exit = code, !.outcome = outcome]

\* the workflow controller of executeRalphWorkflow is not running
WorkflowIdle ==
  /\ guardrails = FALSE
  /\ pc = "idle"
  /\ i = 0
  /\ state = NilState
  /\ attempt = 0
  /\ planResult = NoPlan
  /\ tasksBefore = 0
  /\ runResult = NotDone
  /\ resume = NoResume
  /\ progressLog = <<>>
  /\ lastExit = "none"
  /\ lastErr = NoErr
  /\ deadlines = 0
  /\ stepCalls = 0
  /\ stepDone = FALSE
  /\ blockedBy = "none"
  /\ firstPlan = "pending"
  /\ tasksIncreased = FALSE
  /\ invoked = FALSE
  /\ savedSinceReturn = FALSE
  /\ planFile = FALSE
  /\ bootInfo = NoBoot

MainInit ==
  /\ main = MainStart
  /\ mgr = MgrIdle
  /\ saver = SaverIdle
  /\ naming = NamingIdle
  /\ mode = "cli"
  /\ maxIterations \in 1..MaxMainIter
  /\ prd \in InitPRDs
  /\ stateFile \in InitFiles
  /\ WorkflowIdle

\* main: argument and required-file checks
MainArgs ==
  /\ main.pc = "args"
  /\ \E valid \in BOOLEAN :
       main' = IF ~valid \/ ~prd.exists
               THEN MainExit(main, 1, "usage")
               ELSE [main EXCEPT !.pc = "resume"]
  /\ UNCHANGED <<env, naming, mgr, prd, stateFile, workflowVars, saver>>

\* main: resume detection
MainResume ==
  /\ main.pc = "resume"
  /\ \E response \in Responses :
     \E d \in {detectResumeWithPrompt(stateFile, TRUE, response)} :
       /\ stateFile' = d.file
       /\ main' = [main EXCEPT !.pc = "loop",
                               !.startIteration = IF d.state.isNil THEN 1 ELSE d.state.Iteration,
                               !.i = IF d.state.isNil THEN 1 ELSE d.state.Iteration,
                               !.resumeStep = IF d.state.isNil THEN 0 ELSE d.step,
                               !.resumedAt = IF d.state.isNil THEN 0 ELSE d.step]
  /\ UNCHANGED <<env, naming, mgr, prd, workflowVars, saver>>

SkipToStep_never(iter, startIteration, resumeStep) == 0

\* main: "Determine if we should skip to a later step (resume)"
SkipToStep(iter, startIteration, resumeStep) ==
  IF iter = startIteration /\ resumeStep > 1 THEN resumeStep ELSE 0

\* main: loop condition, checkpoint at iteration start, skipToStep
MainLoop ==
  /\ main.pc = "loop"
  /\ IF main.i <= maxIterations
     THEN \E ok \in BOOLEAN :
          \E st \in {NewState(main.i, maxIterations, 1, 0)} :
            /\ stateFile' = SaveLogged(stateFile, st, ok)
            /\ main' = [main EXCEPT !.pc = "step1", !.state = st,
                          !.skipToStep = SkipToStep(main.i, main.startIteration,
                                                    main.resumeStep)]
     ELSE /\ stateFile' = clearState(stateFile)
          /\ main' = MainExit(main, 1, "limit")
  /\ UNCHANGED <<env, naming, mgr, prd, workflowVars, saver>>

\* one numbered step of main: checkpoint, step function, checkpoint
MainStep(n, next) ==
  /\ main.pc = next[1]
  /\ \E r \in StepResults, ok1 \in BOOLEAN, ok2 \in BOOLEAN :
     \E before \in {[main.state EXCEPT !.CurrentStep = n, !.LastCompletedWorkflow = n - 1]} :
     \E after \in {[main.state EXCEPT !.CurrentStep = next[3], !.LastCompletedWorkflow = n]} :
     \E f1 \in {SaveLogged(stateFile, before, ok1)} :
       IF r.failed THEN
         /\ stateFile' = SaveLogged(f1, before, ok2)
         /\ main' = MainExit([main EXCEPT !.state = before], 0, "error")
       ELSE IF n = 1 /\ r.Complete THEN
         /\ stateFile' = clearState(f1)
         /\ main' = MainExit([main EXCEPT !.state = before], 0, "complete")
       ELSE IF n \in {1, 2} /\ r.Blocked THEN
         /\ stateFile' = SaveLogged(f1, before, ok2)
         /\ main' = MainExit([main EXCEPT !.state = before], 0, "blocked")
       ELSE
         /\ stateFile' = SaveLogged(f1, after, ok2)
         /\ main' = [main EXCEPT !.state = after, !.pc = next[2]]
  /\ UNCHANGED <<env, naming, mgr, prd, workflowVars, saver>>

MainSkip(next) ==
  /\ main.pc = next[1]
  /\ main' = [main EXCEPT !.pc = next[2]]
  /\ UNCHANGED <<env, naming, mgr, prd, stateFile, workflowVars, saver>>

MainStep1 ==
  IF main.skipToStep <= 1 THEN MainStep(1, <<"step1", "step2", 2>>)
  ELSE MainSkip(<<"step1", "step2">>)

MainStep2 ==
  IF main.skipToStep <= 2 THEN MainStep(2, <<"step2", "step3", 3>>)
  ELSE MainSkip(<<"step2", "step3">>)

MainStep3 ==
  IF main.skipToStep <= 3 THEN MainStep(3, <<"step3", "step4", 4>>)
  ELSE MainSkip(<<"step3", "step4">>)

SelfImprovementDue(iter) == iter % 5 = 0

MainStep4 ==
  IF SelfImprovementDue(main.i) /\ main.skipToStep <= 4
  THEN MainStep(4, <<"step4", "step5", 5>>)
  ELSE MainSkip(<<"step4", "step5">>)

MainStep5 ==
  IF main.skipToStep <= 5 \/ main.skipToStep = 0
  THEN MainStep(5, <<"step5", "next", 0>>)
  ELSE MainSkip(<<"step5", "next">>)

\* main: end of the loop body
MainNextIteration ==
  /\ main.pc = "next"
  /\ main' = [main EXCEPT !.pc = "loop", !.i = main.i + 1,
                          !.resumeStep = IF main.i = main.startIteration
                                         THEN 0 ELSE main.resumeStep]
  /\ UNCHANGED <<env, naming, mgr, prd, stateFile, workflowVars, saver>>

MainNext ==
  \/ MainArgs
  \/ MainResume
  \/ MainLoop
  \/ MainStep1
  \/ MainStep2
  \/ MainStep3
  \/ MainStep4
  \/ MainStep5
  \/ MainNextIteration

MainSpec == MainInit /\ [][MainNext]_vars

\* ---------------------------------------------------- runManagerMode
\* The tracker holds one workflow state per ticket; a lower ticket number is a
\* higher priority. mgr.log is the sequence of writes the manager requested
\* for the ticket mgr.issue since it was selected.
Tickets == 1..MaxTickets
TicketStates == {"Todo", "In Progress", "Done"}

StateWrite(stateName) == [op |-> "state", value |-> stateName, tagged |-> FALSE]
CommentWrite(kind, usernames) == [op |-> "comment", value |-> kind, tagged |-> usernames]

updateTicketStatus(tracker, issueID, stateName, ok) ==
  IF ok THEN [tracker EXCEPT ![issueID] = stateName] ELSE tracker

verifyIssueState_any(tracker, issueID, expectedState) == TRUE

verifyIssueState(tracker, issueID, expectedState) == tracker[issueID] = expectedState

\* clearManagerState: the manager state file is removed (0 = no file)
clearManagerState_kept(file) == file

clearManagerState(file) == 0

TodoTickets(tracker) == { t \in Tickets : tracker[t] = "Todo" }

\* priorities as the tracker encodes them: 0 none, 1 Urgent, 2 High, 3 Medium, 4 Low
PriorityAssignments ==
  { [t \in Tickets |-> t], [t \in Tickets |-> t - 1], [t \in Tickets |-> 5 - t] }

SwapIssues(s, a, b) == [s EXCEPT ![a] = s[b], ![b] = s[a]]

RECURSIVE SortInner(_, _, _, _)
SortInner(issues, prio, a, b) ==
  IF b > Len(issues) THEN issues
  ELSE SortInner(IF prio[issues[a]] > prio[issues[b]] THEN SwapIssues(issues, a, b)
                 ELSE issues, prio, a, b + 1)

RECURSIVE SortOuter(_, _, _)
SortOuter(issues, prio, a) ==
  IF a >= Len(issues) THEN issues
  ELSE SortOuter(SortInner(issues, prio, a, a + 1), prio, a + 1)

\* fetchTodoTickets: the Todo tickets of the project, sorted by ascending
\* priority number
fetchTodoTickets(tracker, prio) ==
  SortOuter(SelectSeq([t \in Tickets |-> t], LAMBDA t : tracker[t] = "Todo"), prio, 1)

\* tickets[0]
FirstTicket(m) == fetchTodoTickets(m.tracker, m.prio)[1]

\* start-up of a newly selected ticket, in the order runManagerMode performs it
SelectSteps_prdFirst == <<"prd", "branch">>

SelectSteps == <<"branch", "prd">>
AnnounceSteps == <<"comment", "inprogress">>

MgrStart(tracker, prio, file, branch) ==
  [pc |-> "launch", tracker |-> tracker, prio |-> prio, file |-> file, branch |-> branch, ms |-> 0,
   issue |-> 0, selected |-> FALSE, fresh |-> FALSE, newly |-> FALSE, steps |-> <<>>, log |-> <<>>, i |-> 0,
   run |-> "none", failure |-> "none", launches |-> 1]

MgrReturn(m, failure) == [m EXCEPT !.pc = "returned", !.failure = failure]

ManagerInit ==
  /\ main = MainIdle
  /\ saver = SaverIdle
  /\ naming = NamingIdle
  /\ \E tracker \in [Tickets -> TicketStates], prio \in PriorityAssignments,
        file \in 0..MaxTickets, branch \in 0..MaxTickets :
       mgr = MgrStart(tracker, prio, file, branch)
  /\ mode = "manager"
  /\ maxIterations \in 1..MaxMgrIter
  /\ prd = [exists |-> FALSE, incomplete |-> 0]
  /\ stateFile \in InitFiles
  /\ WorkflowIdle

\* resume from the manager state file
ResumeFromFile(m, apiOk, checkoutOk) ==
  IF m.file = 0 THEN m
  ELSE IF ~apiOk \/ ~verifyIssueState(m.tracker, m.file, "In Progress")
    THEN [m EXCEPT !.file = clearManagerState(m.file), !.ms = 0]
  ELSE IF checkoutOk THEN [m EXCEPT !.ms = m.file, !.branch = m.file]
  ELSE [m EXCEPT !.file = clearManagerState(m.file), !.ms = 0]

\* detectBranchBasedRecovery and what runManagerMode does with its result
ResumeFromBranch(m, apiOk, saveOk, checkoutOk) ==
  IF m.ms # 0 THEN m
  ELSE IF m.branch = 0 \/ ~apiOk \/ ~verifyIssueState(m.tracker, m.branch, "In Progress")
    THEN m
  ELSE [m EXCEPT !.file = IF saveOk THEN m.branch ELSE m.file,
                 !.ms = IF checkoutOk THEN m.branch ELSE 0]

\* runManagerMode up to its main loop
MgrLaunch ==
  /\ mgr.pc = "launch"
  /\ \E setupOk \in BOOLEAN, a1 \in BOOLEAN, c1 \in BOOLEAN,
        a2 \in BOOLEAN, s2 \in BOOLEAN, c2 \in BOOLEAN :
       IF ~setupOk THEN mgr' = MgrReturn(mgr, "setup")
       ELSE \E r \in {ResumeFromBranch(ResumeFromFile(mgr, a1, c1), a2, s2, c2)} :
              mgr' = [r EXCEPT !.pc = "select"]
  /\ UNCHANGED <<env, naming, main, prd, stateFile, workflowVars, saver>>

\* main loop: the ticket to work on, its branch and its task list
MgrSelect ==
  /\ mgr.pc = "select"
  /\ IF mgr.ms # 0
     THEN \E apiOk \in BOOLEAN, found \in BOOLEAN, start \in 1..(maxIterations + 1) :
            mgr' = IF ~apiOk THEN MgrReturn([mgr EXCEPT !.run = "none"], "fetch")
                   ELSE IF ~found THEN [mgr EXCEPT !.file = clearManagerState(mgr.file), !.ms = 0,
                                                   !.run = "none"]
                   ELSE [mgr EXCEPT !.pc = "run", !.issue = mgr.ms, !.selected = TRUE,
                                    !.newly = FALSE, !.steps = <<>>,
                                    !.fresh = (mgr.fresh /\ mgr.issue = mgr.ms),
                                    !.log = IF mgr.issue = mgr.ms THEN mgr.log ELSE <<>>,
                                    !.run = "none", !.i = start]
     ELSE \E apiOk \in BOOLEAN, branchOk \in BOOLEAN, prdOk \in BOOLEAN :
            IF ~apiOk THEN mgr' = MgrReturn([mgr EXCEPT !.run = "none"], "fetch")
            ELSE IF fetchTodoTickets(mgr.tracker, mgr.prio) = <<>> THEN mgr' = mgr
            ELSE \E base \in {[mgr EXCEPT !.issue = FirstTicket(mgr), !.selected = TRUE,
                                          !.fresh = TRUE, !.newly = TRUE, !.log = <<>>,
                                          !.steps = <<>>, !.run = "none"]} :
                   mgr' = IF ~branchOk THEN MgrReturn(base, "branch")
                          ELSE IF ~prdOk
                            THEN MgrReturn([base EXCEPT !.branch = base.issue,
                                   !.steps = SubSeq(SelectSteps, 1, 1),
                                   !.file = clearManagerState(base.file),
                                   !.log = <<CommentWrite("escalation", TRUE)>>], "prd")
                          ELSE [base EXCEPT !.branch = base.issue, !.steps = SelectSteps,
                                            !.pc = "announce"]
  /\ UNCHANGED <<env, naming, main, prd, stateFile, workflowVars, saver>>

PersistSteps_updateFirst == <<"inprogress", "save">>

\* runManagerMode: saveManagerState, then the update to In Progress
PersistSteps == <<"save", "inprogress">>

\* one of the two steps of PersistSteps; a failure makes runManagerMode return
Persist(m, op, saveOk, apiOk) ==
  IF op = "save"
  THEN IF saveOk THEN [m EXCEPT !.file = m.issue] ELSE MgrReturn(m, "save")
  ELSE IF apiOk
       THEN [m EXCEPT !.log = Append(m.log, StateWrite("In Progress")),
                      !.tracker = updateTicketStatus(m.tracker, m.issue, "In Progress", TRUE)]
       ELSE MgrReturn([m EXCEPT !.log = Append(m.log, StateWrite("In Progress"))], "update")

\* start comment, manager state, transition to In Progress
MgrAnnounce ==
  /\ mgr.pc = "announce"
  /\ \E saveOk \in BOOLEAN, apiOk \in BOOLEAN, start \in 1..(maxIterations + 1) :
     \E m1 \in {[mgr EXCEPT !.log = Append(mgr.log, CommentWrite("start", TRUE)),
                            !.steps = mgr.steps \o SubSeq(AnnounceSteps, 1, 1),
                            !.ms = mgr.issue]} :
     \E m2 \in {Persist(m1, PersistSteps[1], saveOk, apiOk)} :
     \E m3 \in {IF m2.pc = "returned" THEN m2
                 ELSE Persist(m2, PersistSteps[2], saveOk, apiOk)} :
       mgr' = IF m3.pc = "returned" THEN m3
              ELSE [m3 EXCEPT !.pc = "run", !.i = start,
                              !.steps = mgr.steps \o AnnounceSteps]
  /\ UNCHANGED <<env, naming, main, prd, stateFile, workflowVars, saver>>

\* runRalphLoop as the manager sees it: one iteration with its progress
\* callback, or the return of the loop
MgrRun ==
  /\ mgr.pc = "run"
  /\ IF mgr.i > maxIterations
     THEN mgr' = [mgr EXCEPT !.pc = "ran", !.run = "limit"]
     ELSE \E o \in {"ok", "completed", "blocked", "error"} :
            mgr' = IF o = "ok"
                   THEN [mgr EXCEPT !.i = mgr.i + 1,
                                    !.log = Append(mgr.log, CommentWrite("progress", FALSE))]
                   ELSE [mgr EXCEPT !.pc = "ran", !.run = o]
  /\ UNCHANGED <<env, naming, main, prd, stateFile, workflowVars, saver>>

\* workflow error, blocked, or iteration limit
MgrFailure ==
  /\ mgr.pc = "ran"
  /\ mgr.run \in {"error", "blocked", "limit"}
  /\ \E apiOk \in BOOLEAN :
       mgr' = MgrReturn([mgr EXCEPT
                !.log = mgr.log \o <<CommentWrite("escalation", TRUE), StateWrite("Todo")>>,
                !.tracker = updateTicketStatus(mgr.tracker, mgr.issue, "Todo", apiOk),
                !.file = clearManagerState(mgr.file)], mgr.run)
  /\ UNCHANGED <<env, naming, main, prd, stateFile, workflowVars, saver>>

\* the state requested for a ticket whose run completed, whether or not the
\* pull request could be created
SuccessState_hard(prOk) == IF prOk THEN "Done" ELSE "Todo"

SuccessState(prOk) == "Done"

\* completed run: pull request, success comment, transition to Done
MgrSuccess ==
  /\ mgr.pc = "ran"
  /\ mgr.run = "completed"
  /\ \E prOk \in BOOLEAN, apiOk \in BOOLEAN :
     \E m1 \in {[mgr EXCEPT
                  !.log = (IF prOk THEN mgr.log
                           ELSE Append(mgr.log, CommentWrite("prfailed", TRUE)))
                          \o <<CommentWrite("success", FALSE), StateWrite(SuccessState(prOk))>>,
                  !.tracker = updateTicketStatus(mgr.tracker, mgr.issue,
                                                 SuccessState(prOk), apiOk)]} :
       mgr' = IF ~apiOk THEN MgrReturn(m1, "done")
              ELSE [m1 EXCEPT !.pc = "select", !.file = clearManagerState(m1.file), !.ms = 0]
  /\ UNCHANGED <<env, naming, main, prd, stateFile, workflowVars, saver>>

\* the operator starts the manager again
MgrRestart ==
  /\ mgr.pc = "returned"
  /\ mgr.launches < MaxLaunches
  /\ mgr' = [mgr EXCEPT !.pc = "launch", !.launches = mgr.launches + 1, !.ms = 0,
                        !.selected = FALSE, !.newly = FALSE, !.steps = <<>>, !.run = "none",
                        !.failure = "none", !.i = 0]
  /\ UNCHANGED <<env, naming, main, prd, stateFile, workflowVars, saver>>

ManagerNext ==
  \/ MgrLaunch
  \/ MgrSelect
  \/ MgrAnnounce
  \/ MgrRun
  \/ MgrFailure
  \/ MgrSuccess
  \/ MgrRestart

ManagerSpec == ManagerInit /\ [][ManagerNext]_vars

\* ------------------------------------------------ saveState, step by step
\* saveState creates (truncates) the file and then writes its four lines one
\* call after the other; the process can die between any two of these.
\* iteration numbers a checkpoint can carry: zero, one digit, two digits
SaveIterations == (0..MaxIter) \cup {10 + MaxIter}

SaveStates ==
  { NewState(it, MaxIter, step, last) : it \in SaveIterations, step \in 1..2, last \in 0..2 }

\* the file the shell script's save_state leaves behind: the same four lines
\* with the older key last_completed_step
save_state(st) ==
  [exists |-> TRUE,
   lines |-> << [key |-> "iteration", value |-> Itoa(st.Iteration)],
                [key |-> "max_iterations", value |-> Itoa(st.MaxIterations)],
                [key |-> "current_step", value |-> Itoa(st.CurrentStep)],
                [key |-> "last_completed_step", value |-> Itoa(st.LastCompletedWorkflow)] >>]

\* what is on disk before saveState runs, with the record it was written from
PreviousFiles ==
  {[file |-> NoFile, record |-> NilState]}
    \cup { [file |-> saveState(st), record |-> st] : st \in SaveStates }
    \cup { [file |-> save_state(st), record |-> st] : st \in SaveStates }

EmptyFile == [exists |-> TRUE, lines |-> <<>>]

SaverStart(st, prev) ==
  [pc |-> "create", st |-> st, prev |-> prev, k |-> 0, created |-> FALSE,
   loaded |-> NilState]

SaveInit ==
  /\ naming = NamingIdle
  /\ main = MainIdle
  /\ mgr = MgrIdle
  /\ mode = "cli"
  /\ maxIterations = MaxIter
  /\ prd = [exists |-> TRUE, incomplete |-> 0]
  /\ \E before \in PreviousFiles, st \in SaveStates :
       /\ stateFile = before.file
       /\ saver = SaverStart(st, before.record)
  /\ WorkflowIdle

\* os.Create
SaveCreate ==
  /\ saver.pc = "create"
  /\ \E ok \in BOOLEAN :
       IF ok THEN /\ stateFile' = EmptyFile
                  /\ saver' = [saver EXCEPT !.pc = "write", !.created = TRUE]
             ELSE /\ stateFile' = stateFile
                  /\ saver' = [saver EXCEPT !.pc = "returned"]
  /\ UNCHANGED <<env, naming, main, mgr, prd, workflowVars>>

\* one fmt.Fprintf; after the fourth, the return
SaveWrite ==
  /\ saver.pc = "write"
  /\ IF saver.k < Len(saveState(saver.st).lines)
     THEN /\ stateFile' = [stateFile EXCEPT
                             !.lines = Append(@, saveState(saver.st).lines[saver.k + 1])]
          /\ saver' = [saver EXCEPT !.k = saver.k + 1]
     ELSE /\ stateFile' = stateFile
          /\ saver' = [saver EXCEPT !.pc = "returned"]
  /\ UNCHANGED <<env, naming, main, mgr, prd, workflowVars>>

\* the process dies inside saveState
SaveCrash ==
  /\ saver.pc \in {"create", "write"}
  /\ saver' = [saver EXCEPT !.pc = "crashed"]
  /\ UNCHANGED <<env, naming, main, mgr, prd, stateFile, workflowVars>>

\* loadState in the same or in the next process
SaveLoad ==
  /\ saver.pc \in {"returned", "crashed"}
  /\ saver' = [saver EXCEPT !.pc = "loaded", !.loaded = loadState(stateFile)]
  /\ UNCHANGED <<env, naming, main, mgr, prd, stateFile, workflowVars>>

SaveNext ==
  \/ SaveCreate
  \/ SaveWrite
  \/ SaveCrash
  \/ SaveLoad

SaveSpec == SaveInit /\ [][SaveNext]_vars

\* ------------------------------------------------------------- properties
WorkerInvoked ==
  \/ Planning
  \/ Implementation
  \/ GuardrailVerify
  \/ Cleanup
  \/ Commit
  \/ AgentsRefactor
  \/ SelfImprovement

Checkpoint == loadState(stateFile)

\* C1: a step whose every worker invocation hit the deadline returns after
\* exactly MaxRetries invocations with the timeout error; the retry loop never
\* reaches a 4th invocation and never gives up on timeouts after fewer than 3.
C1_RetryBound ==
  /\ attempt < MaxRetries
  /\ stepCalls <= MaxRetries
  /\ (stepDone /\ deadlines = stepCalls)
       => (stepCalls = MaxRetries /\ Contains(lastErr, MsgRequestTimeout))

C1_Witness == stepDone /\ deadlines = MaxRetries /\ stepCalls = MaxRetries

\* C2 (as claimed): a worker failure that was not caused by the deadline makes
\* executeStepWithRetry return at once: it is never followed by a retry, and
\* when no deadline fired before it, it was the step's only invocation.
C2_FatalShortCircuit ==
  lastExit \in {"failure", "nocli"}
    => (stepDone /\ (deadlines = 0 => stepCalls = 1))

\* C3: once planning or implementation reported BLOCKED the run has ended with
\* the blocked error, no unit is about to be invoked, and the checkpoint file
\* is still there with the iteration the run was in.
C3_BlockedHalts ==
  blockedBy \in {"plan", "implement"}
    => /\ pc = "done"
       /\ runResult = Returned(FALSE, "blocked during planning")
       /\ stateFile.exists
       /\ Checkpoint.Iteration = i
       /\ Checkpoint.CurrentStep = 1

C3_Witness ==
  /\ blockedBy = "implement"
  /\ pc = "done"
  /\ stateFile.exists
  /\ i = 2

\* C4 (as claimed): after any unit's output carried BLOCKED no further unit is
\* invoked in that run.
C4_AnyBlockedHalts == [][blockedBy # "none" => ~WorkerInvoked]_vars

\* C5 (as claimed): when the task check after Workflow 2 finds more incomplete
\* tasks than before it, the controller goes on with the same iteration number.
C5_SameIteration ==
  [][(pc = "taskCheck" /\ pc' # "boot"
        /\ countIncompletePRDTasks(prd) > tasksBefore) => i' = i]_vars

\* C6 (as claimed): when a restart accepted a checkpoint {iteration, step}, the
\* first worker invocation of the restarted run is the first unit of that
\* workflow step in that iteration.
C6_ResumeDeterminism ==
  (pc \in Units /\ ~invoked /\ ~resume.state.isNil /\ resume.step \in {1, 2})
    => /\ i = resume.state.Iteration
       /\ pc = (IF resume.step = 1 THEN "plan" ELSE "refactor")

C8_RunTerminates == <>(pc = "done")

C10_CompleteOverridesBlocked ==
  firstPlan = "both" => (pc # "done" /\ runResult.err # "blocked during planning")

\* C11 (as claimed): the process exits 0 only when the run completed; it exits
\* non-zero on a usage error, when the iteration limit is reached, when a unit
\* signalled blocked and when a unit failed.
C11_ExitCodes ==
  main.pc = "exited" => (main.exit = 0 <=> main.outcome = "complete")

\* the state transitions requested for the selected ticket, in order
Transitions(log) == SelectSeq(log, LAMBDA w : w.op = "state")

\* C19 (as claimed): when the manager is done with a ticket whose workflow run
\* completed (it moves on or returns), the ticket is not left In Progress, and
\* for a ticket it selected from Todo the transitions it requested are exactly
\* In Progress followed by Done.
C19_SuccessClosure ==
  (mgr.pc \in {"select", "returned"} /\ mgr.run = "completed") =>
    /\ mgr.tracker[mgr.issue] # "In Progress"
    /\ mgr.fresh => Transitions(mgr.log) = <<StateWrite("In Progress"), StateWrite("Done")>>

\* the state last requested for the selected ticket (its state in the tracker
\* when none was requested)
LastRequestedState ==
  IF Transitions(mgr.log) = <<>> THEN mgr.tracker[mgr.issue]
  ELSE Transitions(mgr.log)[Len(Transitions(mgr.log))].value

\* C20 (as claimed): when the manager returns after a failure on a selected
\* ticket (task list, state update, workflow error, blocked, iteration limit),
\* the last state requested for the ticket is Todo and an escalation comment
\* tagging the configured user was requested.
C20_FailureClosure ==
  (mgr.pc = "returned" /\ mgr.selected
     /\ mgr.failure \in {"prd", "update", "done", "error", "blocked", "limit"}) =>
    /\ LastRequestedState = "Todo"
    /\ \E k \in 1..Len(mgr.log) : mgr.log[k] = CommentWrite("escalation", TRUE)

UnitFailureErrors == {"blocked during planning", "error in Workflow 1", "error in Workflow 2"}

\* C12: when the run has ended because a unit returned an error or Workflow 1
\* was blocked, the checkpoint file is still there and holds the iteration and
\* workflow cursor written before the failing workflow started.
C12_CheckpointSurvivesFailure ==
  (pc = "done" /\ runResult.err \in UnitFailureErrors)
    => /\ stateFile.exists
       /\ Checkpoint = (IF runResult.err = "error in Workflow 2"
                        THEN NewState(i, maxIterations, 2, 1)
                        ELSE NewState(i, maxIterations, 1, 0))

C12_Witness ==
  /\ pc = "done"
  /\ runResult.err = "error in Workflow 2"
  /\ lastExit = "deadline"
  /\ i = 2
  /\ stateFile.exists

RunEndedWithoutError == pc' = "done" /\ runResult'.err = "none"
OperatorDeclined == mode = "cli" /\ bootInfo'.response \in {"n", "N"}

\* C13 (as claimed): an existing checkpoint file is removed only when the run
\* completed, when the iteration limit was exhausted, or when the operator
\* declined the proposed resume.
C13_RemovedOnlyWhenDone ==
  [][(stateFile.exists /\ ~stateFile'.exists)
       => \/ pc = "taskCheck" /\ RunEndedWithoutError
          \/ pc = "boot" /\ bootInfo'.passes /\ OperatorDeclined]_vars

\* C13 (amended): an existing checkpoint file is removed only when the run
\* completed, when the iteration limit was exhausted, when the operator
\* declined the proposed resume, or when resume detection found it corrupted
\* (iteration or maximum zero or unparsable, or iteration above its maximum).
C13_RemovedOnlyWhenDoneOrInvalid ==
  [][(stateFile.exists /\ ~stateFile'.exists)
       => \/ pc = "taskCheck" /\ RunEndedWithoutError
          \/ pc = "boot" /\ bootInfo'.passes /\ OperatorDeclined
          \/ pc = "boot" /\ ~bootInfo'.passes]_vars

C13_Witness ==
  /\ pc = "start"
  /\ bootInfo.existed
  /\ ~bootInfo.passes
  /\ ~stateFile.exists
  /\ mode = "manager"

C15_ResumeValidation ==
  (pc = "start" /\ ~resume.state.isNil)
    => /\ 0 < resume.state.Iteration
       /\ \/ resume.state.Iteration <= maxIterations
          \/ resume.state.Iteration <= resume.state.MaxIterations

\* C16: an accepted checkpoint is resumed with its own iteration number, at
\* Workflow 2 when it records Workflow 1 as completed and at the start of
\* Workflow 1 when it records no completed workflow.
C16_ResumePointMapping ==
  (pc = "start" /\ ~resume.state.isNil)
    => /\ stateFile.exists
       /\ resume.state.Iteration = Checkpoint.Iteration
       /\ Checkpoint.LastCompletedWorkflow = 1 => resume.step = 2
       /\ Checkpoint.LastCompletedWorkflow = 0 => resume.step = 1

C16_Witness ==
  /\ pc = "start"
  /\ resume.step = 2
  /\ resume.state.Iteration = 2
  /\ Checkpoint.LastCompletedWorkflow = 1

\* the unit a resume step stands for
ResumeUnit(step) ==
  CASE step = 1 -> "plan"
    [] step = 2 -> "refactor"
    [] OTHER -> "taskCheck"

\* C17 (as claimed): when a checkpoint is accepted while PLAN.md is on disk,
\* the resume point is the implementation unit.
C17_PlanArtifactResume ==
  (pc = "start" /\ ~resume.state.isNil /\ planFile)
    => ResumeUnit(resume.step) = "implement"

\* C18: a valid checkpoint found at startup is resumed, and left on disk,
\* unless the run is interactive and the operator answered exactly n or N; in
\* that case it is deleted and nothing is resumed.
C18_ResumeConfirmation ==
  (pc = "start" /\ bootInfo.valid)
    => IF mode = "cli" /\ bootInfo.response \in {"n", "N"}
       THEN ~stateFile.exists /\ resume.state.isNil
       ELSE /\ stateFile.exists
            /\ ~resume.state.isNil
            /\ resume.state = Checkpoint

C18_Witness ==
  /\ pc = "start"
  /\ bootInfo.valid
  /\ mode = "cli"
  /\ bootInfo.response = "N"
  /\ ~stateFile.exists

\* the selected ticket reached a terminal outcome: moved to Done, or escalated
\* and reverted to Todo
TicketTerminal ==
  /\ mgr.selected
  /\ mgr.pc \in {"select", "returned"}
  /\ \/ mgr.run = "completed" /\ mgr.tracker[mgr.issue] = "Done"
     \/ mgr.failure \in {"error", "blocked", "limit"} /\ mgr.tracker[mgr.issue] = "Todo"

PriorityRank(p) == IF p = 0 THEN 5 ELSE p

\* C22 (as claimed): the ticket the manager starts work on is a highest-priority
\* Todo ticket, a ticket without priority ranking last; with no Todo ticket
\* the poll changes nothing.
C22_TicketSelection ==
  [][(mgr.pc = "select" /\ mgr.ms = 0 /\ mgr'.failure # "fetch") =>
       IF TodoTickets(mgr.tracker) = {} THEN mgr' = mgr /\ stateFile' = stateFile
       ELSE \A u \in TodoTickets(mgr.tracker) :
              PriorityRank(mgr.prio[mgr'.issue]) <= PriorityRank(mgr.prio[u])]_vars

IsPrefix(s, t) == Len(s) <= Len(t) /\ s = SubSeq(t, 1, Len(s))

ReportedInProgress(t) == t # 0 /\ mgr.tracker[t] = "In Progress"

\* C24: at startup a ticket is resumed only if the manager state file or the
\* current branch names it and the tracker reports it In Progress; a manager
\* state that does not verify is removed; when neither signal verifies no
\* ticket is resumed, so that the main loop selects a fresh Todo ticket.
C24_CrashRecovery ==
  [][(mgr.pc = "launch" /\ mgr'.pc = "select") =>
       /\ mgr'.ms # 0 => (mgr'.ms \in {mgr.file, mgr.branch} /\ ReportedInProgress(mgr'.ms))
       /\ (mgr'.ms # 0 /\ mgr'.ms # mgr.branch) => mgr'.file = mgr'.ms
       /\ (mgr.file # 0 /\ ~ReportedInProgress(mgr.file)) => mgr'.file # mgr.file
       /\ (~ReportedInProgress(mgr.file) /\ ~ReportedInProgress(mgr.branch)) => mgr'.ms = 0
       /\ mgr'.tracker = mgr.tracker]_vars

C24_Witness ==
  /\ mgr.pc = "select"
  /\ mgr.launches = 2
  /\ mgr.ms # 0
  /\ mgr.ms = mgr.issue
  /\ mgr.file = mgr.ms
  /\ mgr.tracker[mgr.ms] = "In Progress"

\* the pull request of the selected ticket could not be created
PullRequestFailed ==
  \E k \in 1..Len(mgr.log) : mgr.log[k] = CommentWrite("prfailed", TRUE)

\* C25: when the run completed and pull-request creation failed, the manager
\* still requests Done as the last state of the ticket; unless that update
\* itself fails, the ticket is Done, the manager state is cleared and the
\* manager is back at ticket selection.
C25_PullRequestFailureIsSoft ==
  (mgr.pc \in {"select", "returned"} /\ mgr.run = "completed" /\ PullRequestFailed) =>
    /\ LastRequestedState = "Done"
    /\ mgr.failure # "done" =>
         /\ mgr.pc = "select"
         /\ mgr.tracker[mgr.issue] = "Done"
         /\ mgr.file = 0
         /\ mgr.ms = 0

C25_Witness ==
  /\ mgr.pc = "select"
  /\ mgr.run = "completed"
  /\ mgr.newly
  /\ PullRequestFailed
  /\ mgr.tracker[mgr.issue] = "Done"

\* number of progress comments requested for the selected ticket
ProgressComments(log) == Len(SelectSeq(log, LAMBDA w : w = CommentWrite("progress", FALSE)))

\* C26 (as claimed): a step of the loop run by the manager invokes the progress
\* callback exactly once when it completes an iteration, the iteration that
\* ends the run as completed included, and not at all when the iteration ends
\* in an error or a blocked signal or when the limit is found reached.
C26_CallbackTiming ==
  [][mgr.pc = "run" =>
       ProgressComments(mgr'.log) - ProgressComments(mgr.log) =
         (IF mgr'.i = mgr.i + 1 \/ mgr'.run = "completed" THEN 1 ELSE 0)]_vars

\* C27: within a pass of Workflow 1 a unit is entered only from its
\* predecessor in the order plan, implement, guardrail, cleanup, commit:
\* implement only after a plan that returned cleanly with neither COMPLETE nor
\* BLOCKED, guardrail exactly when GUARDRAILS.md exists, cleanup and commit only
\* after an implement that did not signal BLOCKED.
C27_Workflow1Order ==
  [][/\ (pc' = "implement" /\ pc # "implement") =>
          /\ pc = "plan"
          /\ lastExit' = "clean"
          /\ ~planResult'.Blocked
          /\ ~planResult'.Complete
          /\ blockedBy' # "plan"
     /\ (pc' = "guardrail" /\ pc # "guardrail") =>
          (pc = "implement" /\ guardrails /\ lastExit' = "clean" /\ blockedBy' # "implement")
     /\ (pc' = "cleanup" /\ pc # "cleanup") =>
          \/ pc = "guardrail" /\ guardrails
          \/ pc = "implement" /\ ~guardrails /\ lastExit' = "clean"
               /\ blockedBy' # "implement"
     /\ (pc' = "commit" /\ pc # "commit") => pc = "cleanup"
     /\ (pc = "implement" /\ pc' \in Units \ {"implement"}) =>
          pc' = (IF guardrails THEN "guardrail" ELSE "cleanup")]_vars

C27_Witness ==
  /\ pc = "commit"
  /\ guardrails
  /\ stepDone
  /\ lastExit = "clean"
  /\ blockedBy = "none"

\* C28: Workflow 2 is entered only from a Workflow 1 loop whose latest planning
\* call signalled COMPLETE; a new run of Workflow 1 begins only at the start of
\* the run or after Workflow 2 ran through once (refactor, then self-improve);
\* self-improve is invoked only after a refactor that returned no error.
C28_Workflow2Gating ==
  [][/\ (pc' = "w1DoneSave" /\ pc # "w1DoneSave") =>
          (pc = "plan" /\ lastExit' = "clean" /\ planResult'.Complete)
     /\ (pc' = "w2Save" /\ pc # "w2Save") => pc = "w1DoneSave"
     /\ (pc' = "refactor" /\ pc # "refactor") => (pc = "w2Save" /\ planResult.Complete)
     /\ (pc' = "selfimprove" /\ pc # "selfimprove") => (pc = "refactor" /\ lastErr' = NoErr)
     /\ (pc' = "w2DoneSave" /\ pc # "w2DoneSave") => (pc = "selfimprove" /\ lastErr' = NoErr)
     /\ (pc' = "callback" /\ pc # "callback") => pc = "w2DoneSave"
     /\ (pc' = "taskCheck" /\ pc # "taskCheck") => pc \in {"w2DoneSave", "callback"}
     /\ (pc' = "iterSave" /\ pc # "iterSave") => pc \in {"start", "taskCheck"}
     /\ (pc' = "w1Save" /\ pc # "w1Save") => pc = "iterSave"
     /\ (pc' = "plan" /\ pc # "plan") => pc \in {"w1Save", "commit"}]_vars

C28_Witness ==
  /\ pc = "selfimprove"
  /\ i = 2
  /\ planResult.Complete
  /\ stepDone
  /\ lastErr = NoErr

\* executeStepWithRetry over every attempt number and worker behaviour: a clean
\* exit returns the parsed outcome without error; no generic failure; no nil
\* result with a nil error
CleanExitReturns ==
  \A a \in 0..(MaxRetries - 1), w \in WorkerBehaviours :
    /\ (w.cli /\ w.exit = "clean") =>
         /\ StepTable[a, w].returned
         /\ StepTable[a, w].err = NoErr
         /\ ~StepTable[a, w].result.isNil
         /\ StepTable[a, w].result.Output = TrimSpace(w.stdout)
         /\ StepTable[a, w].result.Blocked = Contains(w.stdout, <<BLOCKED>>)
         /\ StepTable[a, w].result.Complete = Contains(w.stdout, <<COMPLETE>>)
    /\ StepTable[a, w].err # MsgFailedAfter
    /\ (StepTable[a, w].returned /\ StepTable[a, w].err = NoErr) =>
         ~StepTable[a, w].result.isNil

\* C29: a cleanly exited worker makes executeStepWithRetry return at that
\* invocation with a nil error and the parsed outcome, whatever markers the
\* output carries; the 'failed after N attempts' error is never returned and a
\* nil result never comes with a nil error.
C29_NoSemanticRetry ==
  /\ lastExit = "clean" => (stepDone /\ lastErr = NoErr)
  /\ lastErr # MsgFailedAfter
  /\ CleanExitReturns

C29_Witness ==
  /\ lastExit = "clean"
  /\ stepDone
  /\ stepCalls = 1
  /\ lastErr = NoErr
  /\ blockedBy = "cleanup"
  /\ pc = "commit"

\* C30 (as claimed): whatever happens during saveState, a later loadState
\* returns the complete previous record (none, when there was no file) or the
\* complete new one.
C30_AtomicSave ==
  saver.pc = "loaded" => saver.loaded \in {saver.prev, saver.st}

\* the four fields of a loaded record equal those of the record r
SameFields(loaded, r) ==
  /\ ~loaded.isNil
  /\ loaded.Iteration = r.Iteration
  /\ loaded.MaxIterations = r.MaxIterations
  /\ loaded.CurrentStep = r.CurrentStep
  /\ loaded.LastCompletedWorkflow = r.LastCompletedWorkflow

\* C31: a loadState after a complete saveState returns a record equal to the
\* saved one in iteration, max_iterations, current_step and last-completed;
\* when saveState changed nothing, loadState returns the record the file on
\* disk was written from, also when that file uses the older key
\* last_completed_step, and returns "absent" when there is no file.
C31_CheckpointRoundTrip ==
  saver.pc = "loaded" =>
    /\ (saver.created /\ saver.k = Len(saveState(saver.st).lines))
         => SameFields(saver.loaded, saver.st)
    /\ (~saver.created /\ ~saver.prev.isNil) => SameFields(saver.loaded, saver.prev)
    /\ (~saver.created /\ saver.prev.isNil) => saver.loaded = NilState

\* a two-digit iteration saved completely and loaded back
C31_Witness ==
  /\ saver.pc = "loaded"
  /\ saver.created
  /\ saver.k = 4
  /\ saver.st.Iteration > 9
  /\ saver.loaded = saver.st

\* C32 (as claimed): the self-improvement unit is invoked in an iteration only
\* when the iteration number is a multiple of 5; in every other iteration no
\* worker is started for it.
C32_SelfImprovementCadence ==
  [][(pc = "selfimprove" /\ stepCalls' > 0) => i % 5 = 0]_vars

\* C33 (as claimed): with GUARDRAILS.md present, implementation is entered
\* only from a plan guardrail verification and cleanup only from an outcome
\* guardrail verification; with the file absent neither verification is entered.
C33_GuardrailVerificationPoints ==
  [][/\ (guardrails /\ pc' = "implement" /\ pc # "implement") => pc = "planGuardrail"
     /\ (guardrails /\ pc' = "cleanup" /\ pc # "cleanup") => pc = "guardrail"
     /\ ~guardrails => pc' \notin {"planGuardrail", "guardrail"}]_vars

\* the loop positions of main's numbered steps that resume can skip, with the
\* position that follows each
ResumableSteps == {<<1, "step1", "step2">>, <<2, "step2", "step3">>,
                   <<3, "step3", "step4">>, <<5, "step5", "next">>}

\* C34: leaving step n for the next position, in the iteration the run resumed
\* in the step is skipped (the checkpoint record stays as it was) exactly when n
\* is below the resume step; in every later iteration the step is executed.
C34_ResumeSkipOnce ==
  [][\A n \in ResumableSteps :
       (main.pc = n[2] /\ main'.pc = n[3]) =>
         IF main.i = main.startIteration /\ n[1] < main.resumeStep
         THEN main'.state = main.state
         ELSE main'.state # main.state]_vars

\* a resumed run that skipped below step 3 executes step 1 of a later iteration
C34_Witness ==
  /\ main.pc = "step2"
  /\ main.i > main.startIteration
  /\ main.resumedAt > 1
  /\ main.state.LastCompletedWorkflow = 1

\* C35: the step that calls the progress callback goes on to the task count
\* with the iteration number, the checkpoint (in memory and on disk) and the
\* controller's pending result unchanged, whether or not the callback returned
\* an error; the rest of the run does not depend on the callback's outcome.
C35_CallbackIsolation ==
  [][progressLog' # progressLog /\ progressLog' # <<>> =>
       /\ pc = "callback"
       /\ pc' = "taskCheck"
       /\ i' = i
       /\ state' = state
       /\ stateFile' = stateFile
       /\ runResult' = runResult
       /\ prd' = prd
       /\ tasksBefore' = tasksBefore]_vars

\* the callback of iteration 2 has returned an error and the loop is at the
\* task count of that iteration
C35_Witness ==
  /\ pc = "taskCheck"
  /\ lastErr = MsgCallbackFailed
  /\ i = 2
  /\ progressLog = <<1, 2>>
  /\ ~runResult.done

\* runClaude over every worker behaviour: a non-nil error comes with a result
\* (nil when the CLI is missing) whose Success, Blocked and Complete are false
ErrorCarriesNoSignal ==
  \A w \in WorkerBehaviours :
    runClaude(w).err # NoErr =>
      /\ ~runClaude(w).result.Success
      /\ ~runClaude(w).result.Blocked
      /\ ~runClaude(w).result.Complete

\* C36: whenever runClaude returns an error (timeout, failure, missing CLI) the
\* result it returns has Success, Blocked and Complete false, whatever markers
\* the output carried; a unit whose worker did not exit cleanly either is
\* retried or ends the run with an error, never as completed or blocked.
C36_MarkersOnlyFromCleanExits ==
  /\ ErrorCarriesNoSignal
  /\ (stepCalls > 0 /\ lastExit # "clean") =>
       /\ lastErr # NoErr
       /\ stepDone =>
            /\ pc = "done"
            /\ runResult.done
            /\ ~runResult.completed
            /\ runResult.err \in {"error in Workflow 1", "error in Workflow 2"}

\* the planning worker timed out on every attempt and the run ended with an error
C36_Witness ==
  /\ stepDone
  /\ lastExit = "deadline"
  /\ deadlines = MaxRetries
  /\ pc = "done"
  /\ blockedBy = "none"
  /\ firstPlan = "other"
  /\ runResult.err = "error in Workflow 1"

\* the manager has recorded the terminal outcome of its ticket: escalated after
\* a failed run, or moved on after a completed one
OutcomeRecorded ==
  \/ mgr.pc = "returned" /\ mgr.failure \in {"error", "blocked", "limit"}
  \/ mgr.pc = "select" /\ mgr.run = "completed"

\* C37: for a newly selected ticket the manager state is on disk before the
\* update to In Progress is requested: whenever In Progress is the latest state
\* requested for the ticket or the tracker reports it In Progress, and the
\* terminal outcome is not yet recorded, the manager state file names the ticket.
C37_StateBeforeInProgress ==
  (/\ mgr.newly
   /\ ~OutcomeRecorded
   /\ \/ mgr.tracker[mgr.issue] = "In Progress"
      \/ /\ Transitions(mgr.log) # <<>>
         /\ LastRequestedState = "In Progress")
    => mgr.file = mgr.issue

\* the update to In Progress was requested and failed; the file names the ticket
C37_Witness ==
  /\ mgr.newly
  /\ mgr.pc = "returned"
  /\ mgr.failure = "update"
  /\ mgr.tracker[mgr.issue] = "Todo"
  /\ mgr.log[Len(mgr.log)] = StateWrite("In Progress")
  /\ mgr.file = mgr.issue

\* ------------------------------------------------------------ branch names
\* Branch names, ticket ids and titles are sequences of characters.
MaxTitleLen == 3

UpperCase == <<"A", "B", "C", "D", "E", "F", "G", "H", "I", "J", "K", "L", "M",
               "N", "O", "P", "Q", "R", "S", "T", "U", "V", "W", "X", "Y", "Z">>
LowerCase == <<"a", "b", "c", "d", "e", "f", "g", "h", "i", "j", "k", "l", "m",
               "n", "o", "p", "q", "r", "s", "t", "u", "v", "w", "x", "y", "z">>
DigitChars == {"0", "1", "2", "3", "4", "5", "6", "7", "8", "9"}

\* strings.ToLower on one character
ToLowerChar(c) ==
  IF \E k \in 1..Len(UpperCase) : UpperCase[k] = c
  THEN LowerCase[CHOOSE k \in 1..Len(UpperCase) : UpperCase[k] = c]
  ELSE c

\* slugify: the class [a-z0-9-]
SlugChars == { LowerCase[k] : k \in 1..Len(LowerCase) } \cup DigitChars \cup {"-"}

\* extractIssueIDFromBranch: the class [a-f0-9-]
IssueIDChars == {"a", "b", "c", "d", "e", "f"} \cup DigitChars \cup {"-"}

\* slugify: "Remove multiple consecutive hyphens"
RECURSIVE CollapseHyphens(_)
CollapseHyphens(s) ==
  IF Len(s) < 2 THEN s
  ELSE IF s[1] = "-" /\ s[2] = "-" THEN CollapseHyphens(Tail(s))
  ELSE <<s[1]>> \o CollapseHyphens(Tail(s))

\* strings.Trim(s, "-")
RECURSIVE TrimHyphens(_)
TrimHyphens(s) ==
  IF s = <<>> THEN s
  ELSE IF s[1] = "-" THEN TrimHyphens(Tail(s))
  ELSE IF s[Len(s)] = "-" THEN TrimHyphens(SubSeq(s, 1, Len(s) - 1))
  ELSE s

slugify(s) ==
  LET lowered == [k \in 1..Len(s) |-> ToLowerChar(s[k])]
      hyphened == [k \in 1..Len(s) |-> IF lowered[k] = " " THEN "-" ELSE lowered[k]]
      kept == SelectSeq(hyphened, LAMBDA c : c \in SlugChars)
  IN TrimHyphens(CollapseHyphens(kept))

LinearPrefix == <<"l", "i", "n", "e", "a", "r", "/">>

\* runManagerMode: fmt.Sprintf("linear/%s-%s", issue.ID, issueSlug)
BranchName(issueID, issueSlug) == LinearPrefix \o issueID \o <<"-">> \o issueSlug

\* length of the longest prefix of s made of characters of the class
ClassRun(s, class) ==
  CHOOSE n \in 0..Len(s) :
    /\ \A k \in 1..n : s[k] \in class
    /\ (n < Len(s) => s[n + 1] \notin class)

\* extractIssueIDFromBranch: the group of ^linear/([a-f0-9-]+)- ; the greedy
\* group ends before the last hyphen of the leading run of class characters
extractIssueIDFromBranch(branchName) ==
  IF ~IsPrefix(LinearPrefix, branchName) THEN <<>>
  ELSE LET rest == SubSeq(branchName, Len(LinearPrefix) + 1, Len(branchName))
           hyphens == { j \in 2..ClassRun(rest, IssueIDChars) : rest[j] = "-" }
       IN IF hyphens = {} THEN <<>>
          ELSE SubSeq(rest, 1, (CHOOSE j \in hyphens : \A h \in hyphens : h <= j) - 1)

\* ticket ids: lowercase hex digits and hyphens
IssueIDs == { <<"a", "1">>, <<"0", "c", "-", "f", "9">>, <<"7">> }

\* characters of a ticket title: hex and non-hex letters, upper case, a blank,
\* a hyphen, punctuation
TitleChars == {"a", "B", "x", " ", "-", "!"}
Titles == UNION { [1..n -> TitleChars] : n \in 1..MaxTitleLen }

NamingStart(issueID, title) ==
  [pc |-> "selected", id |-> issueID, title |-> title, branchName |-> <<>>,
   extracted |-> <<>>]

NamingInit ==
  /\ main = MainIdle
  /\ mgr = MgrIdle
  /\ saver = SaverIdle
  /\ mode = "manager"
  /\ maxIterations = MaxIter
  /\ prd = [exists |-> FALSE, incomplete |-> 0]
  /\ stateFile = NoFile
  /\ \E issueID \in IssueIDs, title \in Titles : naming = NamingStart(issueID, title)
  /\ WorkflowIdle

\* runManagerMode: the branch of a newly selected ticket
NamingCreate ==
  /\ naming.pc = "selected"
  /\ naming' = [naming EXCEPT !.pc = "created",
                              !.branchName = BranchName(naming.id, slugify(naming.title))]
  /\ UNCHANGED <<env, main, mgr, saver, prd, stateFile, workflowVars>>

\* detectBranchBasedRecovery: the issue id read from the current branch
NamingExtract ==
  /\ naming.pc = "created"
  /\ naming' = [naming EXCEPT !.pc = "extracted",
                              !.extracted = extractIssueIDFromBranch(naming.branchName)]
  /\ UNCHANGED <<env, main, mgr, saver, prd, stateFile, workflowVars>>

NamingNext ==
  \/ NamingCreate
  \/ NamingExtract

NamingSpec == NamingInit /\ [][NamingNext]_vars

\* C38 (as claimed): the issue id extracted from the branch name built for a
\* ticket is exactly the ticket's id, whatever the title.
C38_BranchRoundTrip ==
  naming.pc = "extracted" => naming.extracted = naming.id

====
